---- MODULE Spec2Model ----
(***************************************************************************)
(* CampusVibe: the offline ingestion job (ingest.py) that builds and       *)
(* persists the vector index under ./storage, and the Streamlit app        *)
(* (app.py) that loads it on every script run and answers chat questions.  *)
(*                                                                         *)
(* The two programs are separate processes that share the file system.    *)
(* ingest.py is modelled step by step through its persist phase (one step  *)
(* per artifact file it writes, with a crash possible between steps); the  *)
(* app is modelled one script run per user interaction, because Streamlit  *)
(* re-executes app.py top to bottom on each interaction.                   *)
(*                                                                         *)
(* llama_index and faiss are libraries, not code of the repository: each   *)
(* call into them is modelled by what the called function does, at the     *)
(* line of the call.                                                       *)
(*                                                                         *)
(* Beside the whole system (Spec) there is one specification per part:     *)
(* SpecIngest (ingest.py alone), SpecRag (chat beside ingestion),          *)
(* SpecSession (login forms and dashboard navigation), SpecFeedback        *)
(* (feedback forms over a notes store), SpecRegister (register_user calls  *)
(* of concurrent sessions, step by step), SpecChunk (the SentenceSplitter  *)
(* on longer texts) and SpecTrail (download counts and the trending cache  *)
(* of mongodbtrail.py, the other Streamlit script of the repository).      *)
(***************************************************************************)
EXTENDS Integers, Sequences, FiniteSets, TLC

(* ------------------------------ bounds -------------------------------- *)
\* most files in ./notes_data
MaxDocs == 2
\* most runs of ingest.py in one behaviour (node ids are fresh per run)
MaxRuns == 2
\* most questions asked in one session
MaxChats == 2
\* Reads of ./storage by the app process are counted up to this number.
MaxLoads == 2

(* ------------------------- program constants -------------------------- *)
\* ingest.py:19 EMBED_MODEL
EMBED_MODEL == "sentence-transformers/all-MiniLM-L6-v2"
\* ingest.py:21 VECTOR_DIMENSION
VECTOR_DIMENSION == 384
\* ingest.py:51 SentenceSplitter(chunk_size=1024, ...)
chunk_size == 1024
\* a query-time model other than the one of ingest.py
OTHER_EMBED_MODEL == "BAAI/bge-base-en"
\* app.py:97 HuggingFaceEmbedding(model_name=...)
APP_EMBED_MODEL == "sentence-transformers/all-MiniLM-L6-v2"

(* --------------------------- input domains ---------------------------- *)
\* Document texts, as token sequences: non-empty, and far below chunk_size
\* tokens.  Two files may hold the same text.
Texts == { <<"os", "ai">> }

\* All sequences over S of length at most n.
RECURSIVE SeqsUpTo(_, _)
SeqsUpTo(S, n) ==
    IF n = 0 THEN { << >> }
    ELSE LET shorter == SeqsUpTo(S, n - 1)
         IN  shorter \cup { Append(s, x) : s \in { t \in shorter : Len(t) = n - 1 }, x \in S }

\* The possible states of ./notes_data: absent, or the files' texts in
\* the (sorted) order SimpleDirectoryReader reads them.
NoDir == [exists |-> FALSE, files |-> << >>]
DataDirs == { NoDir } \cup { [exists |-> TRUE, files |-> f] : f \in SeqsUpTo(Texts, MaxDocs) }

\* Output dimension of an embedding model (all-MiniLM-L6-v2 gives 384).
ModelDimension(model) ==
    IF model = "sentence-transformers/all-MiniLM-L6-v2" THEN 384 ELSE 768

\* HuggingFaceEmbedding: a deterministic vector of the model's dimension,
\* a function of the model and the text.
Embed(model, text) == [dim |-> ModelDimension(model), model |-> model, of |-> text]

(* ---------------------------- file system ----------------------------- *)
\* One artifact file of ./storage.  present = FALSE: no such file.
NoFile == [present |-> FALSE]

\* ./storage before anything was ever persisted.
NoStorage == [exists |-> FALSE, docstore |-> NoFile, index_store |-> NoFile,
              vector_store |-> NoFile]

VARIABLES
    dataDir,        \* ./notes_data: [exists, files]
    storage,        \* ./storage: [exists, docstore, index_store, vector_store]
    ipc,            \* ingest.py: "idle", or "persist" while inside line 73
    istep,          \* the next artifact line 73 writes (1..3)
    run,            \* what the latest run of ingest.py holds in memory
    runs,           \* runs of ingest.py started so far
    result,         \* how the latest run of ingest.py ended
    storage0,       \* ./storage as the latest run of ingest.py found it
    lib,            \* how the installed SimpleVectorStore loader treats a file it cannot parse
    users,          \* the users collection: the set of user documents
    auth,           \* st.session_state.auth
    user_email,     \* st.session_state.user_email
    user_name,      \* st.session_state.user_name
    messages,       \* st.session_state.messages
    rag_query_engine, \* app.py:119, as the latest script run set it
    loadStatus,     \* how init_rag_engine ended in the latest script run
    loadedFrom,     \* ./storage as the latest script run found it
    shown,          \* what the chat handler of the latest script run showed
    lastQuery,      \* what rag_query_engine.query did in the latest script run
    loads,          \* how often this process read ./storage (counted up to MaxLoads)
    login_pw,       \* the password submitted in the sign-in that set auth
    filter_applied, \* st.session_state.filter_applied
    submitted_year, \* st.session_state.submitted_year
    submitted_sem,  \* st.session_state.submitted_sem
    selected_subject_view,  \* st.session_state.selected_subject_view
    selected_resource_type, \* st.session_state.selected_resource_type
    split_input,    \* the text handed to the SentenceSplitter
    split_output,   \* the chunks it returned
    reg,            \* the register_user call of each browser session
    notes,          \* the notes collection: _id -> document
    notice,         \* what the latest feedback form submission showed
    fb_return,      \* what submit_note_feedback returned in that submission
    trending_cache, \* mongodbtrail.py: the st.cache_data entry of get_trending_notes
    logging         \* mongodbtrail.py: log_download calls between their update and their clear

ingestVars == <<dataDir, storage, ipc, istep, run, runs, result, storage0>>
appVars == <<users, auth, user_email, user_name, messages, rag_query_engine,
             loadStatus, loadedFrom, shown, lastQuery, loads, login_pw>>
navVars == <<filter_applied, submitted_year, submitted_sem, selected_subject_view,
             selected_resource_type>>
chunkVars == <<split_input, split_output>>
notesVars == <<notes, notice, fb_return, trending_cache, logging>>
otherVars == <<navVars, chunkVars, reg, notesVars>>
vars == <<ingestVars, lib, appVars, otherVars>>

(* ------------------------------ ingest.py ----------------------------- *)
\* SentenceSplitter(chunk_size=1024, chunk_overlap=20) on one document: a
\* non-empty text that fits in chunk_size tokens is returned as a single
\* chunk.  (Longer and empty texts are outside the documents modelled.)
SplitText(text) == CASE Len(text) \in 1..chunk_size -> << text >>

\* The chunking transformation over all documents, in document order.
RECURSIVE SplitAll(_)
SplitAll(docs) ==
    IF docs = << >> THEN << >>
    ELSE SplitText(Head(docs)) \o SplitAll(Tail(docs))

\* (a variant that goes on with no documents when the directory is empty)
LoadDocuments_empty_ok(dir) ==
    IF ~dir.exists THEN [status |-> "missing", docs |-> << >>]
    ELSE [status |-> "loaded", docs |-> dir.files]

\* ingest.py:29-35.  "missing": the directory does not exist, the function
\* prints and returns.  "no_files": SimpleDirectoryReader raises ValueError
\* for a directory without files.  Otherwise one Document per file.
LoadDocuments(dir) ==
    IF ~dir.exists THEN [status |-> "missing", docs |-> << >>]
    ELSE IF dir.files = << >> THEN [status |-> "no_files", docs |-> << >>]
    ELSE [status |-> "loaded", docs |-> dir.files]

\* FaissVectorStore.add: appends each node's embedding to the flat index
\* and returns the row id (ntotal before the append) given to each node.
FaissAdd(rows, nodes) ==
    [rows |-> rows \o [k \in 1..Len(nodes) |-> nodes[k].embedding],
     new_ids |-> [k \in 1..Len(nodes) |-> Len(rows) + k - 1]]

\* The nodes the pipeline makes of the chunks of run r: node ids are
\* fresh in every run.
MakeNodes(chunks, r) ==
    [k \in 1..Len(chunks) |->
        [id |-> <<r, k>>, text |-> chunks[k], embedding |-> Embed(EMBED_MODEL, chunks[k])]]

\* (a variant that drops the chunk whose embedding fails, and those after
\* it, and carries on)
RunPipeline_skip_failed(docs, r, failAt, rows) ==
    LET chunks == SplitAll(docs)
        kept   == IF failAt \in 1..Len(chunks) THEN SubSeq(chunks, 1, failAt - 1) ELSE chunks
        nodes  == MakeNodes(kept, r)
    IN  [raised |-> FALSE, nodes |-> nodes, rows |-> FaissAdd(rows, nodes).rows]

\* ingest.py:49-59 pipeline.run(documents): chunk, embed each chunk in
\* order, then add the embedded nodes to the pipeline's vector_store.
\* failAt = 0: every embedding succeeds; failAt = k: embedding chunk k
\* raises, and the exception leaves pipeline.run.
RunPipeline(docs, r, failAt, rows) ==
    LET chunks == SplitAll(docs)
        nodes  == MakeNodes(chunks, r)
    IN  IF failAt \in 1..Len(chunks)
        THEN [raised |-> TRUE, nodes |-> << >>, rows |-> rows]
        ELSE [raised |-> FALSE, nodes |-> nodes, rows |-> FaissAdd(rows, nodes).rows]

\* ingest.py:63-68 VectorStoreIndex(nodes, storage_context, embed_model):
\* the nodes already carry embeddings, so none is embedded again; they are
\* added to the storage context's vector store (the same FaissVectorStore
\* the pipeline wrote to), the index struct maps each returned row id to
\* the node's id, and the docstore keeps the nodes' texts.
BuildVectorStoreIndex(nodes, rows, r, src) ==
    LET added == FaissAdd(rows, nodes)
    IN  [run         |-> r,
         src         |-> src,
         rows        |-> added.rows,
         nodes_dict  |-> { <<added.new_ids[k], nodes[k].id>> : k \in 1..Len(nodes) },
         docstore    |-> [k \in 1..Len(nodes) |-> [id |-> nodes[k].id, text |-> nodes[k].text]],
         embed_model |-> EMBED_MODEL]

\* The index of a run that has built nothing.
EmptyIndex == [run |-> 0, src |-> << >>, rows |-> << >>, nodes_dict |-> {}, docstore |-> << >>,
               embed_model |-> EMBED_MODEL]

\* ingest.py:39-68 for loaded documents: a fresh IndexFlatL2 of
\* VECTOR_DIMENSION, the pipeline run, then the index construction.
BuildIndex(docs, r, failAt) ==
    LET piped == RunPipeline(docs, r, failAt, << >>)
    IN  IF piped.raised
        THEN [raised |-> TRUE, nodes |-> << >>, index |-> EmptyIndex]
        ELSE [raised |-> FALSE, nodes |-> piped.nodes,
              index |-> BuildVectorStoreIndex(piped.nodes, piped.rows, r, docs)]

\* The three artifacts storage_context.persist writes, in its order:
\* docstore.json, index_store.json, default__vector_store.json (the
\* FaissVectorStore writes the binary faiss index to that path).  by, src:
\* the run that wrote the file and the documents it had read.
DocstoreFile(ix) == [present |-> TRUE, by |-> ix.run, src |-> ix.src, nodes |-> ix.docstore]
IndexStoreFile(ix) == [present |-> TRUE, by |-> ix.run, src |-> ix.src, nodes_dict |-> ix.nodes_dict,
                       embed_model |-> ix.embed_model]
VectorStoreFile(ix) == [present |-> TRUE, by |-> ix.run, src |-> ix.src, format |-> "faiss",
                        dim |-> VECTOR_DIMENSION, rows |-> ix.rows]

\* (a variant that adds the new nodes to the docstore file found on disk)
PersistArtifact_merge(st, ix, k) ==
    IF k = 1
    THEN [st EXCEPT !.exists = TRUE,
                    !.docstore = [present |-> TRUE, by |-> ix.run, src |-> ix.src,
                                  nodes |-> (IF st.docstore.present THEN st.docstore.nodes ELSE << >>)
                                            \o ix.docstore]]
    ELSE IF k = 2 THEN [st EXCEPT !.index_store = IndexStoreFile(ix)]
    ELSE [st EXCEPT !.vector_store = VectorStoreFile(ix)]

\* ingest.py:73, one file at a time: file k is written in place over
\* whatever ./storage holds (the directory is created with the first).
PersistArtifact(st, ix, k) ==
    IF k = 1 THEN [st EXCEPT !.exists = TRUE, !.docstore = DocstoreFile(ix)]
    ELSE IF k = 2 THEN [st EXCEPT !.index_store = IndexStoreFile(ix)]
    ELSE [st EXCEPT !.vector_store = VectorStoreFile(ix)]

\* ./storage when all of ix has been persisted.
Bundle(ix) == [exists |-> TRUE, docstore |-> DocstoreFile(ix),
               index_store |-> IndexStoreFile(ix),
               vector_store |-> VectorStoreFile(ix)]

\* the last of the artifacts line 73 writes
LastArtifact == 3

\* What a run that has built no index holds.
NoRun == [src |-> NoDir, failAt |-> 0, nodes |-> << >>, index |-> EmptyIndex]

\* create_or_update_index(), lines 23-68: everything before the persist.
IngestStart ==
    /\ ipc = "idle"
    /\ runs < MaxRuns
    /\ runs' = runs + 1
    /\ storage0' = storage
    /\ LET loaded == LoadDocuments(dataDir)
       IN  IF loaded.status = "missing"
           THEN /\ result' = "no_data"
                /\ run' = [NoRun EXCEPT !.src = dataDir]
                /\ UNCHANGED <<ipc, istep>>
           ELSE IF loaded.status = "no_files"
           THEN /\ result' = "no_files_error"
                /\ run' = [NoRun EXCEPT !.src = dataDir]
                /\ UNCHANGED <<ipc, istep>>
           ELSE \E failAt \in 0..Len(SplitAll(loaded.docs)) :
                  LET built == BuildIndex(loaded.docs, runs + 1, failAt)
                  IN  IF built.raised
                      THEN /\ result' = "embed_error"
                           /\ run' = [NoRun EXCEPT !.src = dataDir, !.failAt = failAt]
                           /\ UNCHANGED <<ipc, istep>>
                      ELSE /\ result' = "running"
                           /\ ipc' = "persist"
                           /\ istep' = 1
                           /\ run' = [src |-> dataDir, failAt |-> failAt, nodes |-> built.nodes,
                                      index |-> built.index]
    /\ UNCHANGED <<dataDir, storage, lib>>
    /\ UNCHANGED appVars
    /\ UNCHANGED otherVars

\* create_or_update_index(), line 73: the next artifact is written.
PersistStep ==
    /\ ipc = "persist"
    /\ storage' = PersistArtifact(storage, run.index, istep)
    /\ IF istep = LastArtifact
       THEN /\ ipc' = "idle"
            /\ istep' = 1
            /\ result' = "ok"
       ELSE /\ istep' = istep + 1
            /\ UNCHANGED <<ipc, result>>
    /\ UNCHANGED <<dataDir, run, runs, storage0, lib>>
    /\ UNCHANGED appVars
    /\ UNCHANGED otherVars

\* The ingest process dies inside line 73 (killed, power loss, disk full).
IngestCrash ==
    /\ ipc = "persist"
    /\ ipc' = "idle"
    /\ istep' = 1
    /\ result' = "crashed"
    /\ UNCHANGED <<dataDir, storage, run, runs, storage0, lib>>
    /\ UNCHANGED appVars
    /\ UNCHANGED otherVars

\* Somebody changes the content of ./notes_data between runs.
EditSource ==
    /\ ipc = "idle"
    /\ \E d \in DataDirs :
          /\ d # dataDir
          /\ dataDir' = d
    /\ UNCHANGED <<storage, ipc, istep, run, runs, result, storage0, lib>>
    /\ UNCHANGED appVars
    /\ UNCHANGED otherVars

(* -------------------------------- app.py ------------------------------ *)
Emails == { "a@x" }
Passwords == { "pw", "bad" }
Names == { "Ann" }
Questions == { "q" }

\* st.session_state values that are None
None == "None"

\* rag_query_engine = None
NoEngine == [available |-> FALSE]

\* What rag_query_engine.query(p) can do: return a response, or raise an
\* exception e.  Of e the handler reads only str(e): whether it contains
\* "503", and whether it contains the word loading, in lower case or not.
\* transient tells whether the failure really is the backend's cold start,
\* which the Hugging Face API reports as a 503 saying that the model is
\* loading; any other failure may or may not have such words in its text.
Exceptions ==
    { e \in [kind : {"raise"}, transient : BOOLEAN, has503 : BOOLEAN,
             loading : {"none", "lower", "upper"}] :
        e.transient => (e.has503 \/ e.loading # "none") }
Responses == { [kind |-> "answer", text |-> "ans"] }
QueryOutcomes == Responses \cup Exceptions

\* app.py:111 StorageContext.from_defaults(persist_dir): docstore.json and
\* index_store.json are opened and parsed (a missing file raises); no
\* vector_store is passed, so SimpleVectorStore parses every
\* *__vector_store.json as JSON.  The binary faiss file is no JSON: the
\* installed library either lets that exception out (how = "raises") or
\* drops it and falls back to a new, empty SimpleVectorStore (how =
\* "skips").  With no vector store file an empty SimpleVectorStore is made.
LoadStorageContext(st, how) ==
    IF ~st.docstore.present \/ ~st.index_store.present
    THEN [raised |-> TRUE]
    ELSE IF st.vector_store.present /\ st.vector_store.format # "json" /\ how = "raises"
    THEN [raised |-> TRUE]
    ELSE [raised |-> FALSE,
          docstore |-> st.docstore.nodes,
          nodes_dict |-> st.index_store.nodes_dict,
          built_with |-> st.index_store.embed_model,
          rows |-> IF st.vector_store.present /\ st.vector_store.format = "json"
                   THEN st.vector_store.rows ELSE << >>]

\* The query engine of line 114 over a loaded storage context.  It embeds
\* questions with Settings.embed_model, which line 98 set to the model of
\* line 97.
AsQueryEngine(ctx) ==
    [available |-> TRUE, docstore |-> ctx.docstore, nodes_dict |-> ctx.nodes_dict,
     rows |-> ctx.rows, built_with |-> ctx.built_with, embed_model |-> APP_EMBED_MODEL]

\* app.py:114 as_query_engine(llm=...): the retriever's default top k.
similarity_top_k == 2

\* The words of a question, as the embedding model's tokenizer sees them.
QuestionText(p) == CASE p = "q" -> << "os" >>

\* How often word w occurs in a text.
RECURSIVE CountWord(_, _)
CountWord(text, w) ==
    IF text = << >> THEN 0
    ELSE (IF Head(text) = w THEN 1 ELSE 0) + CountWord(Tail(text), w)

\* The coordinates of an embedding vector.  The real model is a neural
\* network; all that retrieval needs of it is a deterministic map from
\* texts to points, here the counts of the two words of the vocabulary.
Coords(v) == << CountWord(v.of, "os"), CountWord(v.of, "ai") >>

Dot(a, b) == a[1] * b[1] + a[2] * b[2]

\* The squared L2 distance faiss.IndexFlatL2 ranks by.
L2sq(a, b) == (a[1] - b[1]) * (a[1] - b[1]) + (a[2] - b[2]) * (a[2] - b[2])

\* The row ids (counted from 0) of the k smallest of the keys, smallest
\* first, equal keys in insertion order.  A key is a fraction num / den
\* with den > 0.
TopK(keys, k) ==
    LET n == Len(keys)
        Less(i, j) == keys[i].num * keys[j].den < keys[j].num * keys[i].den
        Rank(i) == Cardinality({ j \in 1..n : Less(j, i) \/ (~Less(i, j) /\ j < i) })
        m == IF k < n THEN k ELSE n
    IN  [r \in 1..m |-> (CHOOSE i \in 1..n : Rank(i) = r - 1) - 1]

\* The retrieval step of rag_query_engine.query(p): the question is
\* embedded with the engine's embed model and the vector store of the
\* loaded storage context is queried for similarity_top_k rows.  That
\* store is a SimpleVectorStore, which ranks its rows by cosine similarity
\* to the question, highest first (coordinates are not negative, so the
\* squared cosines are compared, without the question's norm); over no
\* rows it returns nothing.
Retrieve(engine, p) ==
    LET q == Coords(Embed(engine.embed_model, QuestionText(p)))
        row(i) == Coords(engine.rows[i])
    IN  TopK([i \in 1..Len(engine.rows) |->
                 [num |-> 0 - Dot(q, row(i)) * Dot(q, row(i)), den |-> Dot(row(i), row(i))]],
             similarity_top_k)

\* (a variant whose except branch answers from an empty index)
init_rag_engine_fallback(llm_instance, st, how) ==
    IF ~llm_instance THEN [engine |-> NoEngine, status |-> "no_llm"]
    ELSE IF ~st.exists THEN [engine |-> NoEngine, status |-> "missing"]
    ELSE LET ctx == LoadStorageContext(st, how)
         IN  IF ctx.raised
             THEN [engine |-> AsQueryEngine([docstore |-> << >>, nodes_dict |-> {},
                                             rows |-> << >>, built_with |-> EMBED_MODEL]),
                   status |-> "raised"]
             ELSE [engine |-> AsQueryEngine(ctx), status |-> "loaded"]

\* app.py:103-117 init_rag_engine(llm_instance), given whether the setup
\* of lines 85-101 produced an LLM instance.
init_rag_engine(llm_instance, st, how) ==
    IF ~llm_instance THEN [engine |-> NoEngine, status |-> "no_llm"]
    ELSE IF ~st.exists THEN [engine |-> NoEngine, status |-> "missing"]
    ELSE LET ctx == LoadStorageContext(st, how)
         IN  IF ctx.raised
             THEN [engine |-> NoEngine, status |-> "raised"]
             ELSE [engine |-> AsQueryEngine(ctx), status |-> "loaded"]

\* Every script run executes lines 85-119 first: the AI setup (which may
\* fail, leaving LLM_MODEL_INSTANCE = None) and init_rag_engine.
ScriptStart ==
    \E llm_instance \in BOOLEAN :
        LET r == init_rag_engine(llm_instance, storage, lib)
        IN  /\ rag_query_engine' = r.engine
            /\ loadStatus' = r.status
            /\ loadedFrom' = storage
            /\ loads' = IF r.status \in {"loaded", "raised"} /\ loads < MaxLoads
                        THEN loads + 1 ELSE loads

\* The browser sessions that can call register_user at the same time.
Sessions == { "s1", "s2" }

\* A session in which no register_user call was made.
NoCall == [pc |-> "idle"]

\* (a variant that accepts any password of a registered email)
login_user_any_password(email, password) ==
    LET found == { u \in users : u.id = email }
    IN  IF found = {} THEN [ok |-> FALSE, msg |-> "User not found."]
        ELSE [ok |-> TRUE, msg |-> (CHOOSE u \in found : TRUE).name]

\* app.py:38-42 login_user
login_user(email, password) ==
    LET found == { u \in users : u.id = email }
    IN  IF found = {} THEN [ok |-> FALSE, msg |-> "User not found."]
        ELSE LET user_doc == CHOOSE u \in found : TRUE
             IN  IF user_doc.password = password
                 THEN [ok |-> TRUE, msg |-> user_doc.name]
                 ELSE [ok |-> FALSE, msg |-> "Invalid password."]

\* app.py:139-156: the SIGN IN form is submitted.
SignIn ==
    /\ ~auth
    /\ ScriptStart
    /\ \E email \in Emails, pw \in Passwords :
          LET r == login_user(email, pw)
          IN  IF r.ok
              THEN /\ auth' = TRUE
                   /\ user_email' = email
                   /\ user_name' = r.msg
                   /\ login_pw' = pw
              ELSE UNCHANGED <<auth, user_email, user_name, login_pw>>
    /\ shown' = "none"
    /\ lastQuery' = "none"
    /\ UNCHANGED <<users, messages, lib>>
    /\ UNCHANGED ingestVars
    /\ UNCHANGED otherVars

\* app.py:44-57 register_user
register_user(email, password, name) ==
    IF \E u \in users : u.id = email
    THEN [ok |-> FALSE, users |-> users]
    ELSE [ok |-> TRUE,
          users |-> users \cup { [id |-> email, name |-> name, password |-> password] }]

\* app.py:158-170: the REGISTER form is submitted with all fields filled.
Register ==
    /\ ~auth
    /\ ScriptStart
    /\ \E email \in Emails, pw \in Passwords, name \in Names :
          users' = register_user(email, pw, name).users
    /\ shown' = "none"
    /\ lastQuery' = "none"
    /\ UNCHANGED <<auth, user_email, user_name, login_pw, messages, lib>>
    /\ UNCHANGED ingestVars
    /\ UNCHANGED otherVars

\* app.py:182-184: the Logout button.
Logout ==
    /\ auth
    /\ ScriptStart
    /\ auth' = FALSE
    /\ shown' = "none"
    /\ lastQuery' = "none"
    /\ UNCHANGED <<users, user_email, user_name, login_pw, messages, lib>>
    /\ UNCHANGED ingestVars
    /\ UNCHANGED otherVars

\* app.py:281: "503" in str(e) or "loading" in str(e).lower()
LooksTransient(e) == e.has503 \/ e.loading \in {"lower", "upper"}

\* What query(p) did, for the record: answered, or failed for a transient
\* or for a hard reason.
QueryRecord(outcome) ==
    IF outcome.kind = "answer" THEN "answered"
    ELSE IF outcome.transient THEN "transient" ELSE "hard"

\* (a variant without the try/except around the query)
AssistantBlock_no_try(engine, outcome) ==
    IF engine.available
    THEN IF outcome.kind = "answer"
         THEN [shown |-> "answer", query |-> QueryRecord(outcome),
               append |-> << [role |-> "assistant", content |-> outcome.text] >>]
         ELSE [shown |-> "uncaught", query |-> QueryRecord(outcome), append |-> << >>]
    ELSE [shown |-> "offline", query |-> "none", append |-> << >>]

\* (a variant that records the failure notice as an assistant message)
AssistantBlock_logs_failure(engine, outcome) ==
    IF engine.available
    THEN IF outcome.kind = "answer"
         THEN [shown |-> "answer", query |-> QueryRecord(outcome),
               append |-> << [role |-> "assistant", content |-> outcome.text] >>]
         ELSE [shown |-> IF LooksTransient(outcome) THEN "retry" ELSE "error",
               query |-> QueryRecord(outcome),
               append |-> << [role |-> "assistant", content |-> "AI Error"] >>]
    ELSE [shown |-> "offline", query |-> "none", append |-> << >>]

\* app.py:270-286: what the assistant block does with the engine of this
\* script run and with what query(p) does.
AssistantBlock(engine, outcome) ==
    IF engine.available
    THEN IF outcome.kind = "answer"
         THEN [shown |-> "answer", query |-> QueryRecord(outcome),
               append |-> << [role |-> "assistant", content |-> outcome.text] >>]
         ELSE IF LooksTransient(outcome)
              THEN [shown |-> "retry", query |-> QueryRecord(outcome), append |-> << >>]
              ELSE [shown |-> "error", query |-> QueryRecord(outcome), append |-> << >>]
    ELSE [shown |-> "offline", query |-> "none", append |-> << >>]

\* The number of questions in the chat history.
Asked == Cardinality({ i \in 1..Len(messages) : messages[i].role = "user" })

\* app.py:266-286: a question is typed into the chat input.  An exception
\* that leaves the handler ends the script run; the session goes on.
Chat ==
    /\ auth
    /\ Asked < MaxChats
    /\ ScriptStart
    /\ \E p \in Questions, outcome \in QueryOutcomes :
          LET r == AssistantBlock(rag_query_engine', outcome)
          IN  /\ messages' = Append(messages, [role |-> "user", content |-> p]) \o r.append
              /\ shown' = r.shown
              /\ lastQuery' = r.query
    /\ UNCHANGED <<users, auth, user_email, user_name, login_pw, lib>>
    /\ UNCHANGED ingestVars
    /\ UNCHANGED otherVars

(* ------------------- register_user, step by step --------------------- *)
\* The two programs of the repository that define register_user.
Programs == { "app.py", "mongodbtrail.py" }

\* The emails typed into the register forms of concurrent sessions.
RegisterEmails == Emails \cup { "b@x" }

\* The user document register_user inserts.
UserDoc(call) == [id |-> call.email, name |-> call.name, password |-> call.password]

\* app.py:45, mongodbtrail.py:54: a session submits the register form of
\* program impl (every session uses the same program) and the call runs
\* find_one.  An email that is found ends the call with the "already
\* registered" result; otherwise the call goes on to insert_one.
RegisterFind(s) ==
    /\ reg[s].pc = "idle"
    /\ \E impl \in Programs, email \in RegisterEmails, pw \in Passwords, name \in Names :
          /\ \A t \in Sessions : reg[t].pc # "idle" => reg[t].impl = impl
          /\ LET call == [impl |-> impl, email |-> email, password |-> pw, name |-> name]
             IN  IF \E u \in users : u.id = email
                 THEN reg' = [reg EXCEPT ![s] = [pc |-> "done", ret |-> "exists"] @@ call]
                 ELSE reg' = [reg EXCEPT ![s] = [pc |-> "insert"] @@ call]
    /\ UNCHANGED <<ingestVars, lib, appVars, navVars, chunkVars, notesVars>>

\* app.py:48-57, mongodbtrail.py:57-63: insert_one.  _id is unique in a
\* MongoDB collection: the insert of an _id that is there by now raises
\* DuplicateKeyError and stores nothing.  app.py catches the exception and
\* returns (False, "Error: ..."); mongodbtrail.py has no try around the
\* insert, so the exception leaves register_user.
RegisterInsert(s) ==
    /\ reg[s].pc = "insert"
    /\ IF \E u \in users : u.id = reg[s].email
       THEN /\ reg' = [reg EXCEPT ![s] = [@ EXCEPT !.pc = "done"] @@
                          [ret |-> IF reg[s].impl = "app.py" THEN "error" ELSE "raised"]]
            /\ UNCHANGED users
       ELSE /\ users' = users \cup { UserDoc(reg[s]) }
            /\ reg' = [reg EXCEPT ![s] = [@ EXCEPT !.pc = "done"] @@ [ret |-> "ok"]]
    /\ UNCHANGED <<ingestVars, lib, auth, user_email, user_name, messages, rag_query_engine,
                   loadStatus, loadedFrom, shown, lastQuery, loads, login_pw>>
    /\ UNCHANGED <<navVars, chunkVars, notesVars>>

(* -------------------------- app.py: dashboard ------------------------- *)
\* app.py:186-188: the options of the Year and Semester select boxes.
Years == { "1st Year", "2nd Year", "3rd Year", "4th Year" }
Semesters(y) == IF y = "3rd Year" THEN { "5th Sem", "6th Sem" } ELSE { "1st Sem", "2nd Sem" }

\* app.py:241, 230
Subjects == { "OS", "AI", "Computer Networking", "Deep Learning", "NN" }
ResourceTypes == { "Notes", "PYQ", "Lab File" }

\* app.py:204: the year and semester that have notes.
HasNotes == submitted_year = "3rd Year" /\ submitted_sem = "5th Sem"

\* A script run of the dashboard of a signed-in session, started by a
\* widget outside the login forms and the chat input.
DashboardRun ==
    /\ auth
    /\ ScriptStart
    /\ shown' = "none"
    /\ lastQuery' = "none"
    /\ UNCHANGED <<users, auth, user_email, user_name, login_pw, messages, lib>>
    /\ UNCHANGED ingestVars
    /\ UNCHANGED <<chunkVars, reg>>

\* app.py:189-191: the Submit button of the sidebar filters.
SubmitFilter ==
    /\ DashboardRun
    /\ \E y \in Years : \E s \in Semesters(y) :
          /\ filter_applied' = TRUE
          /\ submitted_year' = y
          /\ submitted_sem' = s
          /\ selected_subject_view' = None
          /\ selected_resource_type' = None
    /\ UNCHANGED notesVars

\* app.py:248-249: a "Select <subject>" button of the subject page.
SelectSubject ==
    /\ DashboardRun
    /\ filter_applied /\ HasNotes
    /\ selected_subject_view = None
    /\ \E s_name \in Subjects : selected_subject_view' = s_name
    /\ UNCHANGED <<filter_applied, submitted_year, submitted_sem, selected_resource_type>>
    /\ UNCHANGED notesVars

\* app.py:235-236: an "Open <category>" button of the category page.
OpenCategory ==
    /\ DashboardRun
    /\ filter_applied /\ HasNotes
    /\ selected_subject_view # None /\ selected_resource_type = None
    /\ \E r_type \in ResourceTypes : selected_resource_type' = r_type
    /\ UNCHANGED <<filter_applied, submitted_year, submitted_sem, selected_subject_view>>
    /\ UNCHANGED notesVars

\* app.py:209: Back to Categories, on the page of a category.
BackToCategories ==
    /\ DashboardRun
    /\ filter_applied /\ HasNotes
    /\ selected_subject_view # None /\ selected_resource_type # None
    /\ selected_resource_type' = None
    /\ UNCHANGED <<filter_applied, submitted_year, submitted_sem, selected_subject_view>>
    /\ UNCHANGED notesVars

\* app.py:229: Back to Subjects, on the category page.
BackToSubjects ==
    /\ DashboardRun
    /\ filter_applied /\ HasNotes
    /\ selected_subject_view # None /\ selected_resource_type = None
    /\ selected_subject_view' = None
    /\ UNCHANGED <<filter_applied, submitted_year, submitted_sem, selected_resource_type>>
    /\ UNCHANGED notesVars

\* (a variant that shows Back to Home on every page behind the filters)
BackToHome_everywhere ==
    /\ DashboardRun
    /\ filter_applied
    /\ filter_applied' = FALSE
    /\ UNCHANGED <<submitted_year, submitted_sem, selected_subject_view, selected_resource_type>>
    /\ UNCHANGED notesVars

\* app.py:240, 253: Back to Home, on the subject page and on the page of a
\* year or semester without notes.
BackToHome ==
    /\ DashboardRun
    /\ filter_applied
    /\ HasNotes => selected_subject_view = None
    /\ filter_applied' = FALSE
    /\ UNCHANGED <<submitted_year, submitted_sem, selected_subject_view, selected_resource_type>>
    /\ UNCHANGED notesVars

(* --------------------------- the notes store -------------------------- *)
\* app.py:62, mongodbtrail.py:79: limit(3)
TrendingLimit == 3

\* The most feedback entries of one note.
MaxFeedback == 2

\* What can be typed into a Quick Feedback field.
FeedbackTexts == { "", "good" }

\* A note document of the 3rd year, 5th semester.
Note(subject, unit, downloads) ==
    [subject |-> subject, year |-> "3rd Year", semester |-> "5th Sem", unit |-> unit,
     downloads |-> downloads, feedback |-> << >>]

\* app.py:62, mongodbtrail.py:79 find().sort("downloads", DESCENDING)
\* .limit(3): the lists the query can return for a store.  MongoDB leaves
\* the order of notes with equal downloads open.
TopDownloads(store) ==
    LET ids == DOMAIN store
        m == IF Cardinality(ids) < TrendingLimit THEN Cardinality(ids) ELSE TrendingLimit
    IN  { q \in [1..m -> ids] :
            /\ \A i, j \in 1..m : i < j =>
                  (q[i] # q[j] /\ store[q[i]].downloads >= store[q[j]].downloads)
            /\ \A n \in ids \ { q[i] : i \in 1..m } :
                  \A i \in 1..m : store[q[i]].downloads >= store[n].downloads }

\* app.py:68-73 get_specific_resource: the _id of a note of the subject
\* and unit (year and semester are those of the page), or None.
get_specific_resource(subject, year, sem, unit_num) ==
    LET found == { n \in DOMAIN notes :
                     /\ notes[n].subject = subject /\ notes[n].year = year
                     /\ notes[n].semester = sem /\ notes[n].unit = unit_num }
    IN  IF found = {} THEN None ELSE CHOOSE n \in found : TRUE

\* app.py:75-82 submit_note_feedback.  db_ok = FALSE: update_one raises,
\* and the except branch returns False.
submit_note_feedback(note_id, email, feedback_text, db_ok) ==
    IF feedback_text = "" THEN [ret |-> FALSE, notes |-> notes]
    ELSE IF ~db_ok THEN [ret |-> FALSE, notes |-> notes]
    ELSE IF note_id \in DOMAIN notes
    THEN [ret |-> TRUE,
          notes |-> [notes EXCEPT ![note_id].feedback =
                        Append(@, [user_email |-> email, text |-> feedback_text])]]
    ELSE [ret |-> FALSE, notes |-> notes]

\* app.py:196-202: the feedback form under a trending note is submitted.
TrendingFeedback ==
    /\ DashboardRun
    /\ ~filter_applied
    /\ \E q \in TopDownloads(notes) : \E i \in 1..Len(q) :
       \E fb_t \in FeedbackTexts, db_ok \in BOOLEAN :
          LET r == submit_note_feedback(q[i], user_email, fb_t, db_ok)
          IN  /\ Len(notes[q[i]].feedback) < MaxFeedback
              /\ notes' = r.notes
              /\ fb_return' = r.ret
              /\ notice' = "Sent!"
    /\ UNCHANGED <<navVars, trending_cache, logging>>

\* app.py:211-225: the feedback form of a unit on the Notes page of a
\* subject is submitted.
UnitFeedback ==
    /\ DashboardRun
    /\ filter_applied /\ HasNotes
    /\ selected_subject_view # None /\ selected_resource_type = "Notes"
    /\ \E u_num \in 1..5, fb_val \in FeedbackTexts, db_ok \in BOOLEAN :
          LET data == get_specific_resource(selected_subject_view, "3rd Year", "5th Sem", u_num)
              r == submit_note_feedback(data, user_email, fb_val, db_ok)
          IN  IF data # None
              THEN /\ Len(notes[data].feedback) < MaxFeedback
                   /\ notes' = r.notes
                   /\ fb_return' = r.ret
                   /\ notice' = "Feedback Saved!"
              ELSE /\ notice' = "Resource not found."
                   /\ fb_return' = "none"
                   /\ UNCHANGED notes
    /\ UNCHANGED <<navVars, trending_cache, logging>>

(* ------------------- mongodbtrail.py: download counts ------------------ *)
\* The most downloads logged for one note.
MaxDownloads == 2

\* An empty st.cache_data entry of get_trending_notes.
NoCache == [cached |-> FALSE]

\* mongodbtrail.py:74-85, 263: a script run of the dashboard calls
\* get_trending_notes() and the cache has no entry: the query runs and its
\* result is cached.  (With an entry the cached list is returned and
\* nothing changes.)
TrailView ==
    /\ auth
    /\ ~trending_cache.cached
    /\ \E q \in TopDownloads(notes) : trending_cache' = [cached |-> TRUE, value |-> q]
    /\ UNCHANGED <<ingestVars, lib, appVars, navVars, chunkVars, reg>>
    /\ UNCHANGED <<notes, notice, fb_return, logging>>

\* mongodbtrail.py:74 ttl=600: the cache entry expires.
CacheExpire ==
    /\ trending_cache.cached
    /\ trending_cache' = NoCache
    /\ UNCHANGED <<ingestVars, lib, appVars, navVars, chunkVars, reg>>
    /\ UNCHANGED <<notes, notice, fb_return, logging>>

\* mongodbtrail.py:88-99: update_one({"_id": ...}, {"$inc": {"downloads": 1}})
IncDownloads(store, note_id) ==
    IF note_id \in DOMAIN store
    THEN [store EXCEPT ![note_id].downloads = @ + 1]
    ELSE store

\* (a variant of log_download without line 100)
ClearTrending_kept(cache) == cache

\* mongodbtrail.py:100 get_trending_notes.clear()
ClearTrending(cache) == NoCache

\* mongodbtrail.py:299-311: a session presses "Log Download Count" under
\* a note of the trending list its page shows (any note of the store can
\* be on the list of a page rendered earlier); log_download runs up to its
\* update.
LogDownloadUpdate ==
    /\ auth
    /\ logging < Cardinality(Sessions)
    /\ \E n \in DOMAIN notes :
          /\ notes[n].downloads < MaxDownloads
          /\ notes' = IncDownloads(notes, n)
    /\ logging' = logging + 1
    /\ UNCHANGED <<ingestVars, lib, appVars, navVars, chunkVars, reg>>
    /\ UNCHANGED <<notice, fb_return, trending_cache>>

\* mongodbtrail.py:100: a log_download call clears the cache and returns.
LogDownloadClear ==
    /\ logging > 0
    /\ trending_cache' = ClearTrending(trending_cache)
    /\ logging' = logging - 1
    /\ UNCHANGED <<ingestVars, lib, appVars, navVars, chunkVars, reg>>
    /\ UNCHANGED <<notes, notice, fb_return>>

(* ------------------ SentenceSplitter on longer texts ------------------ *)
\* ingest.py:51 chunk_overlap
chunk_overlap == 20

\* The most sentences of a text handed to the splitter.
MaxSentences == 3

\* A text as the splitter sees it: its sentences in order, each given by
\* its number of tokens, none longer than chunk_size.  Token t of the text
\* is position t, so two chunks share text exactly where their spans of
\* positions overlap.
SentenceSizes == { 10, 20, 600, 1010, 1024 }
SplitInputs == SeqsUpTo(SentenceSizes, MaxSentences) \ { << >> }

\* The number of tokens of sentences 1..n.
RECURSIVE TokensUpTo(_, _)
TokensUpTo(sizes, n) == IF n = 0 THEN 0 ELSE TokensUpTo(sizes, n - 1) + sizes[n]

TokenSize(sizes) == TokensUpTo(sizes, Len(sizes))

\* SentenceSplitter._split: a text that fits in chunk_size is one split;
\* a longer one is cut into its sentences.
Split(sizes) ==
    IF TokenSize(sizes) <= chunk_size
    THEN << [from |-> 1, to |-> TokenSize(sizes), token_size |-> TokenSize(sizes),
             is_sentence |-> TRUE] >>
    ELSE [i \in 1..Len(sizes) |->
            [from |-> TokensUpTo(sizes, i - 1) + 1, to |-> TokensUpTo(sizes, i),
             token_size |-> sizes[i], is_sentence |-> TRUE]]

\* cur_chunk_len
RECURSIVE ChunkLen(_)
ChunkLen(cur_chunk) ==
    IF cur_chunk = << >> THEN 0
    ELSE Head(cur_chunk).token_size + ChunkLen(Tail(cur_chunk))

\* close_chunk, second half: the next chunk starts with the trailing
\* splits of the last one, taken whole and only while they fit in
\* chunk_overlap together.
RECURSIVE Overlap(_, _, _)
Overlap(last_chunk, last_index, cur_chunk_len) ==
    IF last_index >= 1 /\ cur_chunk_len + last_chunk[last_index].token_size <= chunk_overlap
    THEN Overlap(last_chunk, last_index - 1,
                 cur_chunk_len + last_chunk[last_index].token_size)
         \o << last_chunk[last_index] >>
    ELSE << >>

\* A new chunk that starts with overlap gives up leading overlap splits
\* until the next split fits in chunk_size.
RECURSIVE ReduceOverlap(_, _)
ReduceOverlap(cur_chunk, token_size) ==
    IF cur_chunk # << >> /\ ChunkLen(cur_chunk) + token_size > chunk_size
    THEN ReduceOverlap(Tail(cur_chunk), token_size)
    ELSE cur_chunk

\* "".join of the splits of a chunk: the span of text it covers.
Join(cur_chunk) == [from |-> cur_chunk[1].from, to |-> cur_chunk[Len(cur_chunk)].to]

\* SentenceSplitter._merge: the loop over the splits.
RECURSIVE Merge(_, _, _, _, _)
Merge(splits, split_idx, cur_chunk, new_chunk, out) ==
    IF split_idx > Len(splits)
    THEN IF ~new_chunk THEN Append(out, Join(cur_chunk)) ELSE out
    ELSE LET cur_split == splits[split_idx]
             close_chunk == Merge(splits, split_idx,
                                  Overlap(cur_chunk, Len(cur_chunk), 0), TRUE,
                                  Append(out, Join(cur_chunk)))
             kept == ReduceOverlap(cur_chunk, cur_split.token_size)
         IN  IF ChunkLen(cur_chunk) + cur_split.token_size > chunk_size /\ ~new_chunk
             THEN close_chunk
             ELSE IF \/ cur_split.is_sentence
                     \/ ChunkLen(kept) + cur_split.token_size <= chunk_size
                     \/ new_chunk
                  THEN Merge(splits, split_idx + 1, Append(kept, cur_split), FALSE, out)
                  ELSE close_chunk

\* SentenceSplitter(chunk_size=1024, chunk_overlap=20).split_text
SentenceSplitter(sizes) == Merge(Split(sizes), 1, << >>, TRUE, << >>)

\* The chunking step of the pipeline on one text.
SplitDocument ==
    /\ ~split_output.done
    /\ split_input # << >>
    /\ split_output' = [done |-> TRUE, list |-> SentenceSplitter(split_input)]
    /\ UNCHANGED <<ingestVars, lib, appVars, navVars, split_input, reg, notesVars>>

(* --------------------------- the whole system ------------------------- *)
\* app.py:121-125: the navigation keys of a new session.
NavInit ==
    /\ filter_applied = FALSE
    /\ submitted_year = None
    /\ submitted_sem = None
    /\ selected_subject_view = None
    /\ selected_resource_type = None

\* No text is being chunked.
ChunkIdle ==
    /\ split_input = << >>
    /\ split_output = [done |-> FALSE]

\* No register_user call is running.
RegIdle == reg = [s \in Sessions |-> NoCall]

\* The notes collection is empty and no form was submitted.
NotesInit ==
    /\ notes = << >>
    /\ notice = "none"
    /\ fb_return = "none"
    /\ trending_cache = NoCache
    /\ logging = 0

RestInit ==
    /\ ChunkIdle
    /\ RegIdle
    /\ NotesInit

\* ingest.py never ran: there is no ./storage.
IngestInit ==
    /\ storage = NoStorage
    /\ ipc = "idle"
    /\ istep = 1
    /\ run = NoRun
    /\ runs = 0
    /\ result = "none"
    /\ storage0 = NoStorage

\* app.py:121-125: a new browser session of a new app process.
SessionInit ==
    /\ auth = FALSE
    /\ user_email = None
    /\ user_name = None
    /\ messages = << >>
    /\ rag_query_engine = NoEngine
    /\ loadStatus = "no_llm"
    /\ loadedFrom = NoStorage
    /\ shown = "none"
    /\ lastQuery = "none"
    /\ loads = 0
    /\ login_pw = None
    /\ NavInit

\* Nothing ingested yet, nobody registered, a new browser session.
Init ==
    /\ dataDir \in DataDirs
    /\ lib \in {"raises", "skips"}
    /\ IngestInit
    /\ users = {}
    /\ SessionInit
    /\ RestInit

Next ==
    \/ IngestStart
    \/ PersistStep
    \/ IngestCrash
    \/ EditSource
    \/ SignIn
    \/ Register
    \/ Logout
    \/ Chat
    \/ SubmitFilter
    \/ SelectSubject
    \/ OpenCategory
    \/ BackToCategories
    \/ BackToSubjects
    \/ BackToHome
    \/ TrendingFeedback
    \/ UnitFeedback

Spec == Init /\ [][Next]_vars

\* The ingestion job alone: the app is not used.
NextIngest ==
    \/ IngestStart
    \/ PersistStep
    \/ IngestCrash
    \/ EditSource

SpecIngest == Init /\ [][NextIngest]_vars

\* The chat of a signed-in session beside ingestion runs over a source
\* directory that does not change: Init after Register and SignIn of Ann.
InitSignedIn ==
    /\ dataDir \in DataDirs
    /\ lib \in {"raises", "skips"}
    /\ IngestInit
    /\ users = { [id |-> "a@x", name |-> "Ann", password |-> "pw"] }
    /\ auth = TRUE
    /\ user_email = "a@x"
    /\ user_name = "Ann"
    /\ messages = << >>
    /\ rag_query_engine = NoEngine
    /\ loadStatus = "no_llm"
    /\ loadedFrom = NoStorage
    /\ shown = "none"
    /\ lastQuery = "none"
    /\ loads = 0
    /\ login_pw = "pw"
    /\ NavInit
    /\ RestInit

NextRag ==
    \/ IngestStart
    \/ PersistStep
    \/ IngestCrash
    \/ Chat

SpecRag == InitSignedIn /\ [][NextRag]_vars

\* One browser session from registration on: the login forms and the
\* navigation of the dashboard; ingest.py has not run.
NextSession ==
    \/ SignIn
    \/ Register
    \/ Logout
    \/ SubmitFilter
    \/ SelectSubject
    \/ OpenCategory
    \/ BackToCategories
    \/ BackToSubjects
    \/ BackToHome

SpecSession == Init /\ [][NextSession]_vars

\* Browser sessions that register at the same time, one call each.
InitRegister ==
    /\ dataDir = NoDir
    /\ lib = "skips"
    /\ IngestInit
    /\ users = {}
    /\ SessionInit
    /\ RestInit

NextRegister ==
    \/ \E s \in Sessions : RegisterFind(s)
    \/ \E s \in Sessions : RegisterInsert(s)

SpecRegister == InitRegister /\ [][NextRegister]_vars

\* The dashboard of a signed-in session over a store of two notes.
InitFeedback ==
    /\ dataDir = NoDir
    /\ lib = "skips"
    /\ IngestInit
    /\ users = { [id |-> "a@x", name |-> "Ann", password |-> "pw"] }
    /\ auth = TRUE
    /\ user_email = "a@x"
    /\ user_name = "Ann"
    /\ messages = << >>
    /\ rag_query_engine = NoEngine
    /\ loadStatus = "no_llm"
    /\ loadedFrom = NoStorage
    /\ shown = "none"
    /\ lastQuery = "none"
    /\ loads = 0
    /\ login_pw = "pw"
    /\ NavInit
    /\ ChunkIdle
    /\ RegIdle
    /\ notes = [n \in {"n1", "n2"} |->
                  IF n = "n1" THEN Note("OS", 1, 0) ELSE Note("AI", 2, 0)]
    /\ notice = "none"
    /\ fb_return = "none"
    /\ trending_cache = NoCache
    /\ logging = 0

NextFeedback ==
    \/ SubmitFilter
    \/ SelectSubject
    \/ OpenCategory
    \/ BackToCategories
    \/ BackToSubjects
    \/ BackToHome
    \/ TrendingFeedback
    \/ UnitFeedback

SpecFeedback == InitFeedback /\ [][NextFeedback]_vars

\* mongodbtrail.py: signed-in sessions over a store of four notes, one
\* more than the trending list holds.
InitTrail ==
    /\ dataDir = NoDir
    /\ lib = "skips"
    /\ IngestInit
    /\ users = { [id |-> "a@x", name |-> "Ann", password |-> "pw"] }
    /\ auth = TRUE
    /\ user_email = "a@x"
    /\ user_name = "Ann"
    /\ messages = << >>
    /\ rag_query_engine = NoEngine
    /\ loadStatus = "no_llm"
    /\ loadedFrom = NoStorage
    /\ shown = "none"
    /\ lastQuery = "none"
    /\ loads = 0
    /\ login_pw = "pw"
    /\ NavInit
    /\ ChunkIdle
    /\ RegIdle
    /\ notes = [n \in {"n1", "n2", "n3", "n4"} |-> Note("OS", 1, 0)]
    /\ notice = "none"
    /\ fb_return = "none"
    /\ trending_cache = NoCache
    /\ logging = 0

NextTrail ==
    \/ TrailView
    \/ CacheExpire
    \/ LogDownloadUpdate
    \/ LogDownloadClear

SpecTrail == InitTrail /\ [][NextTrail]_vars

\* The splitter alone, on every text of SplitInputs.
InitChunk ==
    /\ dataDir = NoDir
    /\ lib = "skips"
    /\ IngestInit
    /\ users = {}
    /\ SessionInit
    /\ split_input \in SplitInputs
    /\ split_output = [done |-> FALSE]
    /\ RegIdle
    /\ NotesInit

NextChunk == SplitDocument

SpecChunk == InitChunk /\ [][NextChunk]_vars

(* ============================== claims =============================== *)
\* ./storage holds all three artifacts, all written by one run.
Complete(st) ==
    /\ st.exists
    /\ st.docstore.present /\ st.index_store.present /\ st.vector_store.present
    /\ st.docstore.by = st.index_store.by
    /\ st.index_store.by = st.vector_store.by

\* The texts of the chunks a docstore file holds, in order.
TextsOf(file) == [k \in 1..Len(file.nodes) |-> file.nodes[k].text]

\* C1: when ./storage is missing or loading it raises, init_rag_engine
\* returns no engine, and the question of that script run is answered with
\* the offline message: it does not reach the query engine and nothing
\* leaves the handler uncaught.
C1_OfflineWhenNotLoadable ==
    loadStatus \in {"missing", "raised"} =>
        /\ rag_query_engine = NoEngine
        /\ shown \in {"none", "offline"}
        /\ lastQuery = "none"

\* A question was asked while loading ./storage raised, and got the
\* offline message.
C1_Witness ==
    /\ loadStatus = "raised"
    /\ loadedFrom.exists
    /\ shown = "offline"
    /\ Len(messages) > 0

\* C2: whatever query(p) does, the handler ends showing one of the answer,
\* the retry notice, the error message or the offline message, the
\* question is in the history, and the session still takes the next
\* question.
C2_QueryFailuresAreShown ==
    /\ shown \in {"none", "answer", "retry", "error", "offline"}
    /\ shown # "none" => Asked > 0
    /\ lastQuery = "answered" <=> shown = "answer"
    /\ lastQuery \in {"transient", "hard"} <=> shown \in {"retry", "error"}
    /\ Asked < MaxChats => ENABLED Chat

\* Two questions were asked, neither was answered, and the second one
\* failed inside the query engine and got the error message.
C2_Witness ==
    /\ Len(messages) = 2
    /\ messages[1].role = "user" /\ messages[2].role = "user"
    /\ lastQuery = "hard"
    /\ shown = "error"

\* C3 (as claimed): a failed query gets the retry notice exactly when the
\* failure is the backend's transient cold start, and the error message
\* exactly when it is any other failure.
C3_RetryIffTransient ==
    /\ lastQuery = "transient" => shown = "retry"
    /\ lastQuery = "hard" => shown = "error"

\* C4: a run that finds ./notes_data missing or without files reports
\* that and leaves ./storage as it found it.
C4_NoDataLeavesStorage ==
    (runs > 0 /\ (~run.src.exists \/ run.src.files = << >>)) =>
        /\ result \in {"no_data", "no_files_error"}
        /\ result = "no_data" <=> ~run.src.exists
        /\ ipc = "idle"
        /\ storage = storage0

\* A run found the directory empty while ./storage held a complete index
\* of an earlier run.
C4_Witness ==
    /\ result = "no_files_error"
    /\ run.src.exists
    /\ Complete(storage0)
    /\ storage = storage0

\* The runs that have written a file now in ./storage.
WritersOf(st) ==
    { f.by : f \in { g \in {st.docstore, st.index_store, st.vector_store} : g.present } }

\* C5: a run in which the embedding of a chunk fails ends there and
\* persists nothing: ./storage stays as the run found it, no file in it is
\* written by this run, and if it was a complete index or absent before,
\* it still is.
C5_EmbedFailurePersistsNothing ==
    run.failAt > 0 =>
        /\ result = "embed_error"
        /\ ipc = "idle"
        /\ storage = storage0
        /\ runs \notin WritersOf(storage)
        /\ (Complete(storage0) \/ storage0 = NoStorage) => (Complete(storage) \/ storage = NoStorage)

\* The embedding of the second of two chunks failed while ./storage held
\* the complete index of an earlier run.
C5_Witness ==
    /\ run.failAt = 2
    /\ result = "embed_error"
    /\ Complete(storage0)
    /\ storage = storage0

\* C6 (as claimed): after a successful run the persisted vector index has
\* one row per node of the pipeline, and row k-1 maps to the id of node k.
C6_OneRowPerChunk ==
    result = "ok" =>
        /\ Len(storage.vector_store.rows) = Len(run.nodes)
        /\ storage.index_store.nodes_dict =
               { <<k - 1, run.nodes[k].id>> : k \in 1..Len(run.nodes) }

\* C7 (as claimed): while a run persists over a complete index, and after
\* a crash in the middle of it, ./storage is the complete old index or the
\* complete new one.
C7_PersistIsAtomic ==
    (Complete(storage0) /\ result \in {"running", "crashed", "ok"}) =>
        storage \in {storage0, Bundle(run.index)}

\* C8 (as claimed): a script run that loads the non-empty index a run of
\* ingest.py has persisted gets an engine over the same vectors, the same
\* row-id to chunk-id mapping and the same chunk texts.
C8_LoadIsInverseOfPersist ==
    (/\ loadStatus # "no_llm"
     /\ run.nodes # << >>
     /\ loadedFrom = Bundle(run.index)) =>
        /\ rag_query_engine.available
        /\ rag_query_engine.rows = run.index.rows
        /\ rag_query_engine.nodes_dict = run.index.nodes_dict
        /\ rag_query_engine.docstore = run.index.docstore

\* C9: a successful run over the documents the stored complete index was
\* built from leaves an index of the same size with the same chunk texts,
\* all of it written by this run and holding nodes of this run only.
C9_RebuildIsIdempotent ==
    (result = "ok" /\ Complete(storage0) /\ storage0.docstore.src = run.src.files) =>
        /\ Len(storage.vector_store.rows) = Len(storage0.vector_store.rows)
        /\ Len(storage.docstore.nodes) = Len(storage0.docstore.nodes)
        /\ TextsOf(storage.docstore) = TextsOf(storage0.docstore)
        /\ Cardinality(storage.index_store.nodes_dict) = Cardinality(storage0.index_store.nodes_dict)
        /\ Complete(storage) /\ storage.docstore.by = runs
        /\ \A k \in 1..Len(storage.docstore.nodes) : storage.docstore.nodes[k].id[1] = runs

\* A second successful run over the same two documents.
C9_Witness ==
    /\ result = "ok"
    /\ Complete(storage0)
    /\ storage0.docstore.src = run.src.files
    /\ Len(run.nodes) = 2
    /\ storage0 # storage

\* C10: an available engine embeds questions with the model, and in the
\* dimension, that ingest.py embedded the chunks of the loaded index with.
C10_SameEmbeddingModel ==
    rag_query_engine.available =>
        /\ rag_query_engine.embed_model = rag_query_engine.built_with
        /\ ModelDimension(rag_query_engine.embed_model) = VECTOR_DIMENSION
        /\ \A k \in 1..Len(run.index.rows) :
               /\ run.index.rows[k].model = rag_query_engine.embed_model
               /\ run.index.rows[k].dim = ModelDimension(rag_query_engine.embed_model)

\* An engine is available over the complete, non-empty index of a run.
C10_Witness ==
    /\ rag_query_engine.available
    /\ Complete(loadedFrom)
    /\ Len(loadedFrom.docstore.nodes) > 0

\* C11: in one app process the persisted storage context is loaded from
\* ./storage once, at process start, however many interactions follow:
\* line 111 never runs a second time.
C11_LoadedOnce == loads <= 1

\* ceil(a / b) for b > 0
CeilDiv(a, b) == (a + b - 1) \div b

\* C12: a text of L tokens is cut into ceil((L - O) / (S - O)) chunks when
\* L > O, where S is the chunk size and O the overlap; no chunk is longer
\* than S; the last O tokens of each chunk are the first O tokens of the
\* next; and a text shorter than S is one chunk.
C12_FixedWindowChunks ==
    split_output.done =>
        LET L == TokenSize(split_input)
            S == chunk_size
            O == chunk_overlap
            list == split_output.list
        IN  /\ L > O => Len(list) = CeilDiv(L - O, S - O)
            /\ \A k \in 1..Len(list) : list[k].to - list[k].from + 1 <= S
            /\ \A k \in 1..(Len(list) - 1) : list[k + 1].from = list[k].to - O + 1
            /\ L < S => Len(list) = 1

\* The k rows of an IndexFlatL2 nearest to the question under the
\* embedding model of ingestion: smallest L2 distance first, equal
\* distances in insertion order.
NearestL2(rows, p, k) ==
    LET q == Coords(Embed(EMBED_MODEL, QuestionText(p)))
    IN  TopK([i \in 1..Len(rows) |-> [num |-> L2sq(q, Coords(rows[i])), den |-> 1]], k)

\* C13: a retrieval over the persisted index of N vectors returns the k
\* rows (k <= N) of smallest L2 distance to the question, nearest first,
\* equal distances in insertion order: a script run that has loaded the
\* non-empty index of an ingestion run retrieves exactly those rows.
C13_RetrievesNearestL2 ==
    (/\ loadStatus # "no_llm"
     /\ run.nodes # << >>
     /\ loadedFrom = Bundle(run.index)) =>
        /\ rag_query_engine.available
        /\ \A p \in Questions :
              Retrieve(rag_query_engine, p) = NearestL2(run.index.rows, p, similarity_top_k)

\* C14: auth becomes true only in a step whose login_user call found a
\* user record with the submitted email as _id and the submitted password
\* as password, and the session then carries that record's email and name;
\* a step that starts and ends signed out (a failed login among them)
\* leaves user_email and user_name as they were; Logout ends with auth
\* false.
C14_AuthOnlyByLogin ==
    [][ /\ (~auth /\ auth') =>
              \E u \in users : /\ u.id = user_email'
                                /\ u.password = login_pw'
                                /\ u.name = user_name'
        /\ (~auth /\ ~auth') => UNCHANGED <<user_email, user_name>>
        /\ Logout => ~auth' ]_vars

\* A session signed in through the login form, after a failed attempt
\* had been possible (the stored password differs from another one).
C14_Witness ==
    /\ auth
    /\ \E u \in users : u.id = user_email /\ u.password = login_pw
    /\ \E pw \in Passwords : ~login_user(user_email, pw).ok

\* C16: the navigation flags stay nested.  A resource type is selected
\* only while a subject is; a subject is selected only while the filter is
\* applied with the submitted year '3rd Year' and semester '5th Sem'; and a
\* filter Submit ends with neither selected.
C16_NavFlagsNested ==
    /\ [] /\ selected_resource_type # None => selected_subject_view # None
          /\ selected_subject_view # None =>
                (filter_applied /\ submitted_year = "3rd Year" /\ submitted_sem = "5th Sem")
    /\ [][ SubmitFilter =>
              (selected_subject_view' = None /\ selected_resource_type' = None) ]_vars

\* A session that opened a category of a subject and then logged out:
\* Logout leaves the selections in the session.
C16_Witness ==
    /\ ~auth
    /\ selected_subject_view # None
    /\ selected_resource_type # None

\* C15: whatever the interleaving of register_user calls, the users store
\* holds at most one record per email; of the finished calls for an email
\* at most one returned success, the stored record carries its name and
\* password, and every other one returned a failure result.
C15_OneWinnerPerEmail ==
    /\ \A u, v \in users : u.id = v.id => u = v
    /\ \A e \in RegisterEmails :
          LET calls == { s \in Sessions : reg[s].pc = "done" /\ reg[s].email = e }
              winners == { s \in calls : reg[s].ret = "ok" }
          IN  /\ Cardinality(winners) <= 1
              /\ \A s \in winners : UserDoc(reg[s]) \in users
              /\ \A s \in calls \ winners : reg[s].ret \in {"exists", "error"}

\* C17: the chat history is append-only and well paired.  A step that
\* changes it appends one user message, followed by one assistant message
\* exactly if the engine of that script run was available and its query
\* returned an answer, and by nothing otherwise; what was there before
\* stays as it was; and every assistant message comes right after a user
\* message.
C17_ChatHistoryWellPaired ==
    /\ [] \A i \in 1..Len(messages) :
             messages[i].role = "assistant" => (i > 1 /\ messages[i - 1].role = "user")
    /\ [][ messages' # messages =>
              \E p \in Questions :
                 LET asked == Append(messages, [role |-> "user", content |-> p])
                     answered == rag_query_engine'.available /\ lastQuery' = "answered"
                 IN  IF answered
                     THEN \E a \in Responses :
                             messages' = Append(asked, [role |-> "assistant", content |-> a.text])
                     ELSE messages' = asked ]_vars

\* A history with an answered question followed by one that got no answer.
C17_Witness ==
    /\ Len(messages) = 3
    /\ messages[2].role = "assistant"
    /\ messages[3].role = "user"
    /\ lastQuery # "answered"

\* C18: feedback is reported as successful only if it was stored.  For
\* every note id and text, submit_note_feedback with an empty text returns
\* False and leaves the store as it is; it returns True only when a note
\* was modified, and then exactly one entry was appended to exactly the
\* note with that id; and the dashboard shows 'Sent!' or 'Feedback Saved!'
\* only for a submission that returned True.
C18_SuccessOnlyIfStored ==
    /\ \A id \in DOMAIN notes \cup {"n0"}, text \in FeedbackTexts, db_ok \in BOOLEAN :
          LET r == submit_note_feedback(id, user_email, text, db_ok)
          IN  /\ text = "" => (~r.ret /\ r.notes = notes)
              /\ ~r.ret => r.notes = notes
              /\ r.ret =>
                    /\ id \in DOMAIN notes
                    /\ Len(r.notes[id].feedback) = Len(notes[id].feedback) + 1
                    /\ SubSeq(r.notes[id].feedback, 1, Len(notes[id].feedback)) = notes[id].feedback
                    /\ r.notes[id].feedback[Len(r.notes[id].feedback)].text = text
                    /\ \A n \in DOMAIN notes \ {id} : r.notes[n] = notes[n]
    /\ notice \in {"Sent!", "Feedback Saved!"} => fb_return = TRUE

\* The lists the next call of get_trending_notes can return.
NextTrending ==
    IF trending_cache.cached THEN { trending_cache.value } ELSE TopDownloads(notes)

============================================================================
